---- MODULE Spec2Model ----
(***************************************************************************)
(* srspipeline: the generate -> validate -> auto-fix pipeline              *)
(* (src/src/pipeline/srs_pipeline.py), the generator's template            *)
(* resolution (src/src/generator/srs_generator.py), the validator's result *)
(* assembly (src/src/validator/srs_validator.py) and the template registry *)
(* (src/src/templates/template_registry.py).                               *)
(*                                                                         *)
(* Python strings that the code inspects (requirement, template name) are  *)
(* sequences of one-character strings, so that lower() and the substring   *)
(* test `in` are computed.  Opaque texts (documents, error messages) are   *)
(* TLA+ strings.  A JSON value decoded from the validator's reply is a     *)
(* tagged record: JAbsent is a missing key.                                *)
(***************************************************************************)
EXTENDS Integers, Sequences, FiniteSets, TLC

----------------------------------------------------------------------------
(* Bounds *)

\* largest max_retries a caller passes in the model
MaxRetries == 2

\* number of fragments concatenated into a requirement text given to the
\* template selector
MaxFrags == 2

----------------------------------------------------------------------------
(* Python str helpers *)

UpperLetters == <<"A","B","C","D","E","F","G","H","I","J","K","L","M",
                  "N","O","P","Q","R","S","T","U","V","W","X","Y","Z">>

LowerLetters == <<"a","b","c","d","e","f","g","h","i","j","k","l","m",
                  "n","o","p","q","r","s","t","u","v","w","x","y","z">>

\* str.lower() on one character
LowerChar(c) ==
    IF \E i \in 1..26 : UpperLetters[i] = c
    THEN LowerLetters[CHOOSE i \in 1..26 : UpperLetters[i] = c]
    ELSE c

\* str.lower()
Lower(s) == [i \in 1..Len(s) |-> LowerChar(s[i])]

\* Python `k in s` for strings
Contains(s, k) ==
    \E i \in 1..(Len(s) - Len(k) + 1) : SubSeq(s, i, i + Len(k) - 1) = k

\* Optional[T]: None is the empty sequence, a value x is <<x>>
None == <<>>

Some(x) == <<x>>

IsNone(o) == Len(o) = 0

\* Python truthiness of an Optional[str] whose string is a character
\* sequence: None and "" are falsy
TruthyStr(o) == ~IsNone(o) /\ Len(o[1]) > 0

----------------------------------------------------------------------------
(* Template registry *)

Agile == <<"a","g","i","l","e">>

Ieee == <<"i","e","e","e">>

Minimal == <<"m","i","n","i","m","a","l">>

Startup == <<"s","t","a","r","t","u","p">>

\* keys of TemplateRegistry._templates as the class body sets them
TemplateIds == {Agile, Ieee, Minimal, Startup}

\* TemplateRegistry._templates, the catalog shared by every caller: the ids
\* that are registered
VARIABLE registry

\* TemplateRegistry.get_template: the template registered under
\* name.lower(), or None.  A template is identified by its `name` attribute,
\* which equals its registry key.
get_template(template_name) ==
    IF Lower(template_name) \in registry
    THEN Some(Lower(template_name))
    ELSE None

KwFormal == <<"f","o","r","m","a","l">>

KwAcademic == <<"a","c","a","d","e","m","i","c">>

KwInvestor == <<"i","n","v","e","s","t","o","r">>

KwPitch == <<"p","i","t","c","h">>

KwQuick == <<"q","u","i","c","k">>

KwMvp == <<"m","v","p">>

KwSimple == <<"s","i","m","p","l","e">>

KwScrum == <<"s","c","r","u","m">>

KwSprint == <<"s","p","r","i","n","t">>

KwUserStory == <<"u","s","e","r"," ","s","t","o","r","y">>

\* the selector with the agile group tested first
get_template_for_requirement_agileFirst(requirement) ==
    LET requirement_lower == Lower(requirement)
    IN  IF \/ Contains(requirement_lower, Agile)
           \/ Contains(requirement_lower, KwScrum)
           \/ Contains(requirement_lower, KwSprint)
           \/ Contains(requirement_lower, KwUserStory)
        THEN Agile
        ELSE IF \/ Contains(requirement_lower, Ieee)
                \/ Contains(requirement_lower, KwFormal)
                \/ Contains(requirement_lower, KwAcademic)
        THEN Ieee
        ELSE IF \/ Contains(requirement_lower, Startup)
                \/ Contains(requirement_lower, KwInvestor)
                \/ Contains(requirement_lower, KwPitch)
        THEN Startup
        ELSE IF \/ Contains(requirement_lower, Minimal)
                \/ Contains(requirement_lower, KwQuick)
                \/ Contains(requirement_lower, KwMvp)
                \/ Contains(requirement_lower, KwSimple)
        THEN Minimal
        ELSE Agile

\* TemplateRegistry.get_template_for_requirement
get_template_for_requirement(requirement) ==
    LET requirement_lower == Lower(requirement)
    IN  IF \/ Contains(requirement_lower, Ieee)
           \/ Contains(requirement_lower, KwFormal)
           \/ Contains(requirement_lower, KwAcademic)
        THEN Ieee
        ELSE IF \/ Contains(requirement_lower, Startup)
                \/ Contains(requirement_lower, KwInvestor)
                \/ Contains(requirement_lower, KwPitch)
        THEN Startup
        ELSE IF \/ Contains(requirement_lower, Minimal)
                \/ Contains(requirement_lower, KwQuick)
                \/ Contains(requirement_lower, KwMvp)
                \/ Contains(requirement_lower, KwSimple)
        THEN Minimal
        ELSE IF \/ Contains(requirement_lower, Agile)
                \/ Contains(requirement_lower, KwScrum)
                \/ Contains(requirement_lower, KwSprint)
                \/ Contains(requirement_lower, KwUserStory)
        THEN Agile
        ELSE Agile

----------------------------------------------------------------------------
(* Text-generation service outcomes (client.models.generate_content) *)

\* texts the service returns to a generation prompt
Docs == {"docA", "docB"}

\* the generation call raises (err is str(e)), returns a response whose
\* .text is None, or returns a response with a text
GenOutcomes ==
    {[kind |-> "raise", err |-> "quota exceeded", text |-> ""]}
    \cup {[kind |-> "none", err |-> "", text |-> ""]}
    \cup {[kind |-> "text", err |-> "", text |-> d] : d \in Docs}

\* str(e) of the TypeError raised by len(None)
LenNoneError == "object of type 'NoneType' has no len()"

----------------------------------------------------------------------------
(* SRSGenerator *)

\* extra instructions handed to generate: none, the caller's text, or the
\* auto-fix text "Previous version had these issues ...:\n" + fix lines
NoInstructions == [kind |-> "none", text |-> "", lines |-> <<>>]

CallerInstructions(t) == [kind |-> "caller", text |-> t, lines |-> <<>>]

FixPrompt(fix_lines) == [kind |-> "fix", text |-> "", lines |-> fix_lines]

\* Python truthiness of custom_instructions
TruthyInstructions(ci) ==
    \/ ci.kind = "fix"
    \/ ci.kind = "caller" /\ ci.text # ""

\* an unknown id resolved by the selector instead of the fixed id
ResolveTemplate_selector(user_requirement, template_name) ==
    LET selected_template ==
            IF TruthyStr(template_name)
            THEN Lower(template_name[1])
            ELSE get_template_for_requirement(user_requirement)
    IN  IF IsNone(get_template(selected_template))
        THEN get_template_for_requirement(user_requirement)
        ELSE selected_template

\* generate, lines 50-61: the template id the call resolves to
ResolveTemplate(user_requirement, template_name) ==
    LET selected_template ==
            IF TruthyStr(template_name)
            THEN Lower(template_name[1])
            ELSE get_template_for_requirement(user_requirement)
    IN  IF IsNone(get_template(selected_template))
        THEN Agile
        ELSE selected_template

\* generate, lines 63-68: the prompt is the resolved template's skeleton
\* with the requirement substituted, plus the extra-instructions block
BuildPrompt(user_requirement, template_name, custom_instructions) ==
    [template |-> ResolveTemplate(user_requirement, template_name),
     requirement |-> user_requirement,
     extra |-> IF TruthyInstructions(custom_instructions)
               THEN custom_instructions
               ELSE NoInstructions]

\* template.get_validation_criteria(): the list stored for the template,
\* identified by its owner and its length
TemplateCriteria(template_id) ==
    [source |-> "template", template |-> template_id,
     count |-> CASE template_id = Agile -> 8
                 [] template_id = Ieee -> 9
                 [] template_id = Minimal -> 8
                 [] template_id = Startup -> 11]

\* the except branch reporting the id as given instead of the resolved one
Generate_unresolvedOnFailure(user_requirement, template_name, custom_instructions, o) ==
    LET selected_template == ResolveTemplate(user_requirement, template_name)
    IN  IF o.kind = "text"
        THEN [success |-> TRUE,
              srs_document |-> Some(o.text),
              template_used |-> selected_template,
              validation_criteria |-> Some(TemplateCriteria(selected_template)),
              error |-> None]
        ELSE [success |-> FALSE,
              srs_document |-> None,
              template_used |-> IF TruthyStr(template_name)
                                THEN Lower(template_name[1])
                                ELSE selected_template,
              validation_criteria |-> None,
              error |-> Some(IF o.kind = "raise" THEN o.err ELSE LenNoneError)]

\* SRSGenerator.generate under service outcome o
Generate(user_requirement, template_name, custom_instructions, o) ==
    LET selected_template == ResolveTemplate(user_requirement, template_name)
    IN  IF o.kind = "text"
        THEN [success |-> TRUE,
              srs_document |-> Some(o.text),
              template_used |-> selected_template,
              validation_criteria |-> Some(TemplateCriteria(selected_template)),
              error |-> None]
        ELSE [success |-> FALSE,
              srs_document |-> None,
              template_used |-> selected_template,
              validation_criteria |-> None,
              error |-> Some(IF o.kind = "raise" THEN o.err ELSE LenNoneError)]

----------------------------------------------------------------------------
(* JSON values and Python dicts of JSON values *)

\* a key that the dict does not have
JAbsent == [t |-> "absent"]

JNull == [t |-> "null"]

JBool(b) == [t |-> "bool", b |-> b]

JNum(n) == [t |-> "num", n |-> n]

JStr(s) == [t |-> "str", s |-> s]

JList(l) == [t |-> "list", l |-> l]

\* an element of "issues": {"severity": ..., "description": ...}
IssueObj(severity, category, description) ==
    [t |-> "issue", severity |-> severity, category |-> category,
     description |-> description]

\* an element of "suggestions": {"priority": ..., "suggestion": ...}
SuggestionObj(priority, suggestion) ==
    [t |-> "suggestion", priority |-> priority, suggestion |-> suggestion]

\* whether a JSON value decodes to a Python dict (has .get)
IsDict(v) == v.t \in {"issue", "suggestion"}

\* Python truthiness of a decoded JSON value
Truthy(v) ==
    CASE v.t = "bool" -> v.b
      [] v.t = "num" -> v.n # 0
      [] v.t = "str" -> v.s # ""
      [] v.t = "list" -> Len(v.l) > 0
      [] v.t = "issue" -> TRUE
      [] v.t = "suggestion" -> TRUE
      [] OTHER -> FALSE

\* dict.get(key, default)
Get(d, key, default) == IF d[key] = JAbsent THEN default ELSE d[key]

\* the keys a validation dict can carry; a missing key maps to JAbsent
EmptyDict ==
    [success |-> JAbsent, error |-> JAbsent, is_valid |-> JAbsent,
     score |-> JAbsent, overall_assessment |-> JAbsent, issues |-> JAbsent,
     suggestions |-> JAbsent, section_analysis |-> JAbsent,
     raw_response |-> JAbsent, metadata |-> JAbsent]

----------------------------------------------------------------------------
(* Replies of the text-generation service to a grading prompt *)

MinorIssue == IssueObj(JStr("minor"), JStr("style"), JStr("typo in section 2"))

MajorIssue == IssueObj(JStr("major"), JStr("structure"), JStr("no numbered requirements"))

CriticalIssue == IssueObj(JStr("critical"), JAbsent, JAbsent)

HighSuggestion == SuggestionObj(JStr("high"), JStr("add a glossary"))

MediumSuggestion == SuggestionObj(JStr("medium"), JStr("shorten the intro"))

LowSuggestion == SuggestionObj(JStr("low"), JAbsent)

\* a reply object with the given values and no other key
ReplyObject(is_valid, score, issues, suggestions) ==
    [EmptyDict EXCEPT !.is_valid = is_valid, !.score = score,
                      !.issues = issues, !.suggestions = suggestions]

\* reply objects that follow the requested schema, keys possibly missing;
\* in the four-element suggestion list the only high-priority suggestion is
\* the fourth
ConformingReplies ==
    {EmptyDict,
     ReplyObject(JBool(TRUE), JAbsent, JAbsent, JAbsent),
     ReplyObject(JBool(FALSE), JAbsent, JList(<<MajorIssue>>), JAbsent)}
    \cup
    {ReplyObject(iv, JNum(85), is, sg) :
        iv \in {JAbsent, JBool(TRUE), JBool(FALSE)},
        is \in {JAbsent, JList(<<MinorIssue>>), JList(<<MajorIssue>>),
                JList(<<MinorIssue, CriticalIssue>>)},
        sg \in {JAbsent, JList(<<HighSuggestion>>),
                JList(<<MediumSuggestion>>),
                JList(<<LowSuggestion, LowSuggestion, LowSuggestion,
                        HighSuggestion>>)}}

\* reply objects that are JSON but not of the requested schema: a string
\* for is_valid ("false" is truthy), null or a list of plain strings for
\* issues, null for suggestions, a score outside 0-100, and a key named
\* success
NonConformingReplies ==
    {ReplyObject(JStr("false"), JNum(85), JList(<<MajorIssue>>), JAbsent),
     ReplyObject(JBool(TRUE), JNum(150), JAbsent, JAbsent),
     ReplyObject(JBool(FALSE), JNum(-5), JList(<<MajorIssue>>), JAbsent),
     ReplyObject(JBool(FALSE), JNum(85), JNull, JAbsent),
     ReplyObject(JBool(FALSE), JAbsent, JList(<<JStr("missing scope")>>),
                 JList(<<HighSuggestion>>)),
     ReplyObject(JBool(FALSE), JNum(85), JList(<<MajorIssue>>), JNull),
     ReplyObject(JBool(FALSE), JNum(85), JList(<<>>), JNull),
     [ReplyObject(JBool(TRUE), JNum(85), JAbsent, JAbsent)
        EXCEPT !.success = JBool(FALSE)],
     [ReplyObject(JBool(FALSE), JNum(85), JList(<<MajorIssue>>), JAbsent)
        EXCEPT !.success = JBool(FALSE)]}

\* JSON objects the service can reply with
ReplyObjects == ConformingReplies \cup NonConformingReplies

\* the grading call raises, returns a response whose .text is None, returns
\* prose, returns a JSON array, or returns a JSON object
ValReplies ==
    {[kind |-> k, err |-> "", text |-> "", obj |-> EmptyDict] :
        k \in {"none", "array"}}
    \cup {[kind |-> "raise", err |-> "service unavailable", text |-> "",
           obj |-> EmptyDict]}
    \cup {[kind |-> "prose", err |-> "", text |-> "The document looks fine.",
           obj |-> EmptyDict]}
    \cup {[kind |-> "object", err |-> "", text |-> "", obj |-> d] :
           d \in ReplyObjects}

----------------------------------------------------------------------------
(* SRSValidator *)

\* str(e) of the TypeError re.search raises on a None text
SearchNoneError == "expected string or bytes-like object"

\* str(e) of the TypeError raised by ** on a list
NotMappingError == "'list' object is not a mapping"

\* _parse_validation_response: the decoded reply, the fallback dict when
\* json.loads raises JSONDecodeError, or any other exception passed on
_parse_validation_response(reply) ==
    CASE reply.kind = "object" -> [t |-> "dict", d |-> reply.obj, err |-> ""]
      [] reply.kind = "array" -> [t |-> "array", d |-> EmptyDict, err |-> ""]
      [] reply.kind = "none" ->
            [t |-> "raise", d |-> EmptyDict, err |-> SearchNoneError]
      [] reply.kind = "prose" ->
            [t |-> "dict", err |-> "",
             d |-> [EmptyDict EXCEPT
                      !.is_valid = JBool(FALSE),
                      !.score = JNum(0),
                      !.overall_assessment =
                          JStr("Failed to parse validation response"),
                      !.issues = JList(<<IssueObj(JStr("critical"),
                                   JStr("parsing"),
                                   JStr("Could not parse validation response"))>>),
                      !.suggestions = JList(<<>>),
                      !.section_analysis = JList(<<>>),
                      !.raw_response = JStr(reply.text)]]

\* _get_default_criteria
DefaultCriteria == [source |-> "default", template |-> <<>>, count |-> 6]

\* the default checklist taken whenever no criteria are passed
CriteriaUsed_defaultWhenOmitted(template_name, validation_criteria) ==
    IF ~IsNone(validation_criteria) /\ validation_criteria[1].count > 0
    THEN validation_criteria[1]
    ELSE DefaultCriteria

\* validate, lines 53-59: the criteria list the grading prompt is built from
CriteriaUsed(template_name, validation_criteria) ==
    IF ~IsNone(validation_criteria) /\ validation_criteria[1].count > 0
    THEN validation_criteria[1]
    ELSE IF ~IsNone(get_template(template_name))
         THEN TemplateCriteria(get_template(template_name)[1])
         ELSE DefaultCriteria

\* a failure dict that also lists the failure as a critical issue
ValidateFailure_asIssue(err) ==
    [EmptyDict EXCEPT !.success = JBool(FALSE), !.error = JStr(err),
                      !.is_valid = JBool(FALSE), !.score = JNum(0),
                      !.issues = JList(<<IssueObj(JStr("critical"),
                                                  JStr("service"),
                                                  JStr(err))>>)]

\* the dict of the except branch, lines 87-93
ValidateFailure(err) ==
    [EmptyDict EXCEPT !.success = JBool(FALSE), !.error = JStr(err),
                      !.is_valid = JBool(FALSE), !.score = JNum(0)]

\* SRSValidator.validate under service reply `reply`
Validate(srs_document, user_requirement, template_name, validation_criteria, reply) ==
    LET parsed == _parse_validation_response(reply)
        criteria == CriteriaUsed(template_name, validation_criteria)
    IN  CASE reply.kind = "raise" -> ValidateFailure(reply.err)
          [] parsed.t = "raise" -> ValidateFailure(parsed.err)
          [] parsed.t = "array" -> ValidateFailure(NotMappingError)
          [] OTHER ->
               [parsed.d EXCEPT
                  !.success = Get(parsed.d, "success", JBool(TRUE)),
                  !.metadata = [t |-> "meta",
                                template_validated |-> template_name,
                                criteria_count |-> criteria.count]]

----------------------------------------------------------------------------
(* SRSValidator._parse_validation_response on the text of a reply *)

(* A reply text is a sequence of lexemes: the fence marker, the tag json,   *)
(* white space, JSON punctuation and literals, the double quote, and words. *)
(* The text itself is their concatenation.                                  *)

\* the fence marker, three backquotes
Fence == "<fence>"

JsonTag == "json"

Quote == "\""

NL == "\n"

\* the lexemes matched by \s and removed by str.strip()
Whitespace == {" ", NL}

RECURSIVE LStrip(_)
\* str.lstrip() of a text
LStrip(text) ==
    IF Len(text) > 0 /\ Head(text) \in Whitespace
    THEN LStrip(Tail(text))
    ELSE text

RECURSIVE RStrip(_)
\* str.rstrip() of a text
RStrip(text) ==
    IF Len(text) > 0 /\ text[Len(text)] \in Whitespace
    THEN RStrip(SubSeq(text, 1, Len(text) - 1))
    ELSE text

\* str.strip()
Strip(text) == RStrip(LStrip(text))

\* the positions of fence markers in a text
FencePositions(text) == {i \in 1..Len(text) : text[i] = Fence}

\* the least element of a non-empty set of positions
Least(S) == CHOOSE i \in S : \A j \in S : i <= j

\* line 185: re.search of fence, optional json, \s*, \n?, a lazy group (.*?),
\* \n?, fence, with re.DOTALL.  The leftmost match opens at the first fence marker that has another one
\* after it, takes the tag json when it follows at once, and, the group
\* being lazy, closes at the next fence marker.  The white space the
\* pattern sets apart around the group is removed by strip() anyway.
FencedBlock(text) ==
    IF Cardinality(FencePositions(text)) < 2 THEN None
    ELSE LET open == Least(FencePositions(text))
             close == Least(FencePositions(text) \ {open})
             start == IF open + 1 < close /\ text[open + 1] = JsonTag
                      THEN open + 2
                      ELSE open + 1
         IN  Some(SubSeq(text, start, close - 1))

\* a JSON string decoded from a text: the lexemes between its quotes
JText(toks) == [t |-> "text", toks |-> toks]

\* a JSON object decoded from a text: its members in insertion order, the
\* keys being the lexemes between the quotes
JObj(members) == [t |-> "obj", members |-> members]

Member(key, val) == [key |-> key, val |-> val]

\* dict insertion: a repeated key keeps its place and takes the new value
PutMember(members, key, val) ==
    IF \E i \in 1..Len(members) : members[i].key = key
    THEN [i \in 1..Len(members) |->
            IF members[i].key = key THEN Member(key, val) ELSE members[i]]
    ELSE Append(members, Member(key, val))

\* the number lexemes of the replies and their values
NumberLexemes == {"0", "85", "90", "150"}

NumberOf(lexeme) ==
    CASE lexeme = "0" -> 0
      [] lexeme = "85" -> 85
      [] lexeme = "90" -> 90
      [] lexeme = "150" -> 150

\* the decoder's outcome: a value and the text after it, or a failure
\* (json.JSONDecodeError)
Decoded(v, rest) == [ok |-> TRUE, v |-> v, rest |-> rest]

DecodeError == [ok |-> FALSE, v |-> JNull, rest |-> <<>>]

RECURSIVE DecodeString(_, _)
\* the rest of a JSON string after its opening quote; a raw line break
\* inside a string is an invalid control character
DecodeString(text, acc) ==
    IF Len(text) = 0 THEN DecodeError
    ELSE IF Head(text) = Quote THEN Decoded(JText(acc), Tail(text))
    ELSE IF Head(text) = NL THEN DecodeError
    ELSE DecodeString(Tail(text), Append(acc, Head(text)))

RECURSIVE DecodeValue(_)
RECURSIVE DecodeElements(_, _)
RECURSIVE DecodeMembers(_, _)

\* one JSON value at the start of a text, white space skipped
DecodeValue(text) ==
    LET s == LStrip(text)
    IN  IF Len(s) = 0 THEN DecodeError
        ELSE CASE Head(s) = "true" -> Decoded(JBool(TRUE), Tail(s))
               [] Head(s) = "false" -> Decoded(JBool(FALSE), Tail(s))
               [] Head(s) = "null" -> Decoded(JNull, Tail(s))
               [] Head(s) \in NumberLexemes ->
                    Decoded(JNum(NumberOf(Head(s))), Tail(s))
               [] Head(s) = Quote -> DecodeString(Tail(s), <<>>)
               [] Head(s) = "[" ->
                    IF Len(LStrip(Tail(s))) > 0 /\ Head(LStrip(Tail(s))) = "]"
                    THEN Decoded(JList(<<>>), Tail(LStrip(Tail(s))))
                    ELSE DecodeElements(Tail(s), <<>>)
               [] Head(s) = "{" ->
                    IF Len(LStrip(Tail(s))) > 0 /\ Head(LStrip(Tail(s))) = "}"
                    THEN Decoded(JObj(<<>>), Tail(LStrip(Tail(s))))
                    ELSE DecodeMembers(Tail(s), <<>>)
               [] OTHER -> DecodeError

\* the elements of an array after its opening bracket or a comma
DecodeElements(text, acc) ==
    LET e == DecodeValue(text)
        s == LStrip(e.rest)
    IN  IF ~e.ok \/ Len(s) = 0 THEN DecodeError
        ELSE IF Head(s) = "," THEN DecodeElements(Tail(s), Append(acc, e.v))
        ELSE IF Head(s) = "]" THEN Decoded(JList(Append(acc, e.v)), Tail(s))
        ELSE DecodeError

\* the members of an object after its opening brace or a comma
DecodeMembers(text, acc) ==
    LET k == LStrip(text)
        key == IF Len(k) > 0 /\ Head(k) = Quote
               THEN DecodeString(Tail(k), <<>>)
               ELSE DecodeError
        c == LStrip(key.rest)
        val == IF key.ok /\ Len(c) > 0 /\ Head(c) = ":"
               THEN DecodeValue(Tail(c))
               ELSE DecodeError
        s == LStrip(val.rest)
    IN  IF ~val.ok \/ Len(s) = 0 THEN DecodeError
        ELSE IF Head(s) = ","
             THEN DecodeMembers(Tail(s), PutMember(acc, key.v.toks, val.v))
        ELSE IF Head(s) = "}"
             THEN Decoded(JObj(PutMember(acc, key.v.toks, val.v)), Tail(s))
        ELSE DecodeError

\* json.loads: one value and nothing but white space after it
json_loads(text) ==
    LET d == DecodeValue(text)
    IN  IF d.ok /\ Len(LStrip(d.rest)) = 0 THEN d ELSE DecodeError

\* the fallback without the reply text
ParseFallback_noRaw(response_text) ==
    JObj(<<Member(<<"is_valid">>, JBool(FALSE)),
           Member(<<"score">>, JNum(0)),
           Member(<<"overall_assessment">>,
                  JText(<<"Failed to parse validation response">>)),
           Member(<<"issues">>,
                  JList(<<JObj(<<
                      Member(<<"severity">>, JText(<<"critical">>)),
                      Member(<<"category">>, JText(<<"parsing">>)),
                      Member(<<"description">>,
                             JText(<<"Could not parse validation response">>))
                      >>)>>)),
           Member(<<"suggestions">>, JList(<<>>)),
           Member(<<"section_analysis">>, JList(<<>>))>>)

\* lines 196-204: the dict returned when json.loads raises JSONDecodeError
ParseFallback(response_text) ==
    JObj(<<Member(<<"is_valid">>, JBool(FALSE)),
           Member(<<"score">>, JNum(0)),
           Member(<<"overall_assessment">>,
                  JText(<<"Failed to parse validation response">>)),
           Member(<<"issues">>,
                  JList(<<JObj(<<
                      Member(<<"severity">>, JText(<<"critical">>)),
                      Member(<<"category">>, JText(<<"parsing">>)),
                      Member(<<"description">>,
                             JText(<<"Could not parse validation response">>))
                      >>)>>)),
           Member(<<"suggestions">>, JList(<<>>)),
           Member(<<"section_analysis">>, JList(<<>>)),
           Member(<<"raw_response">>, JText(response_text))>>)

\* _parse_validation_response on a reply text, lines 183-204
ParseResponseText(response_text) ==
    LET json_match == FencedBlock(response_text)
        json_str == IF IsNone(json_match)
                    THEN Strip(response_text)
                    ELSE Strip(json_match[1])
        decoded == json_loads(json_str)
    IN  IF decoded.ok THEN decoded.v ELSE ParseFallback(response_text)

----------------------------------------------------------------------------
(* SRSPipeline._build_fix_instructions *)

\* whether iterating v and calling .get on each element raises
IterRaises(v) ==
    \/ v.t \notin {"list"}
    \/ \E i \in 1..Len(v.l) : ~IsDict(v.l[i])

\* suggestions[:3]
FirstThree(l) == SubSeq(l, 1, IF Len(l) < 3 THEN Len(l) ELSE 3)

RECURSIVE FixLines_majorOnly(_)
\* a FIX line for the major issues only
FixLines_majorOnly(issues) ==
    IF Len(issues) = 0 THEN <<>>
    ELSE LET issue == Head(issues)
         IN  (IF issue.severity = JStr("major")
              THEN <<[kind |-> "FIX",
                      text |-> Get(issue, "description", JStr("Unknown issue"))]>>
              ELSE <<>>)
             \o FixLines_majorOnly(Tail(issues))

RECURSIVE FixLines(_)
\* lines 163-165: one FIX line per issue of severity critical or major
FixLines(issues) ==
    IF Len(issues) = 0 THEN <<>>
    ELSE LET issue == Head(issues)
         IN  (IF issue.severity \in {JStr("critical"), JStr("major")}
              THEN <<[kind |-> "FIX",
                      text |-> Get(issue, "description", JStr("Unknown issue"))]>>
              ELSE <<>>)
             \o FixLines(Tail(issues))

RECURSIVE ImproveLines_anyPriority(_)
\* an IMPROVE line for every suggestion, whatever its priority
ImproveLines_anyPriority(suggestions) ==
    IF Len(suggestions) = 0 THEN <<>>
    ELSE <<[kind |-> "IMPROVE",
            text |-> Get(Head(suggestions), "suggestion", JStr(""))]>>
         \o ImproveLines_anyPriority(Tail(suggestions))

RECURSIVE ImproveLines(_)
\* lines 168-170: one IMPROVE line per high-priority suggestion
ImproveLines(suggestions) ==
    IF Len(suggestions) = 0 THEN <<>>
    ELSE LET suggestion == Head(suggestions)
         IN  (IF suggestion.priority = JStr("high")
              THEN <<[kind |-> "IMPROVE",
                      text |-> Get(suggestion, "suggestion", JStr(""))]>>
              ELSE <<>>)
             \o ImproveLines(Tail(suggestions))

\* _build_fix_instructions(issues, suggestions): the list `instructions`,
\* or raised when an argument is not a list of dicts.  The joined text is
\* empty exactly when the list is, as every line starts with "- ".
_build_fix_instructions(issues, suggestions) ==
    IF IterRaises(issues)
    THEN [raised |-> TRUE, lines |-> <<>>]
    ELSE IF suggestions.t # "list" \/ IterRaises(JList(FirstThree(suggestions.l)))
    THEN [raised |-> TRUE, lines |-> <<>>]
    ELSE [raised |-> FALSE,
          lines |-> FixLines(issues.l) \o ImproveLines(FirstThree(suggestions.l))]

----------------------------------------------------------------------------
(* Inputs *)

\* requirement texts given to run and to generate: one that the selector
\* maps to ieee, one it maps to agile by default
ReqIeeePitch == <<"I","E","E","E"," ","p","i","t","c","h">>

ReqApp == <<"t","o","d","o"," ","a","p","p">>

Requirements == {ReqIeeePitch, ReqApp}

\* template_name arguments of run: omitted, a registered id in mixed case,
\* and an id that is not registered
TemplateNameArgs ==
    {None, Some(<<"M","i","n","i","m","a","l">>), Some(<<"f","o","o">>)}

\* custom_instructions arguments of the caller
InstructionArgs == {NoInstructions, CallerInstructions("be brief")}

\* max_retries arguments; range() of a negative number is empty
RetryArgs == (-1)..MaxRetries

----------------------------------------------------------------------------
(* Inputs of the template selector *)

\* the keywords of get_template_for_requirement
Keywords ==
    {Ieee, KwFormal, KwAcademic, Startup, KwInvestor, KwPitch, Minimal,
     KwQuick, KwMvp, KwSimple, Agile, KwScrum, KwSprint, KwUserStory}

\* pieces of requirement text: every keyword, keywords in other case, parts
\* of keywords that complete each other across a join, and filler
SelFragments ==
    Keywords \cup
    {<<"I","E","E","E">>,
     <<"A","g","i","l","e">>,
     <<"M","V","P">>,
     <<"U","s","e","r"," ","S","t","o","r","y">>,
     <<"i","e">>,
     <<"e","e">>,
     <<"u","s","e","r">>,
     <<"s","t","o","r","y">>,
     <<" ">>,
     <<"x">>,
     <<"s","p","r","i","n">>,
     <<"t">>}

RECURSIVE Concats(_)
\* the texts made of at most n fragments
Concats(n) ==
    IF n = 0 THEN {<<>>}
    ELSE LET shorter == Concats(n - 1)
         IN  shorter \cup {p \o f : p \in shorter, f \in SelFragments}

\* requirement texts given to suggest_template
SelInputs == Concats(MaxFrags)

\* requirement texts given to a direct generate call
GenRequirements == Concats(1)

\* template_name arguments of a direct generate call: omitted, empty,
\* registered ids in other case, and ids that are not registered
GenTemplateNames ==
    {None, Some(<<>>), Some(<<"I","E","E","E">>), Some(<<"M","i","n","i","m","a","l">>), Some(<<"f","o","o">>), Some(<<"a","g","i","l","e","2">>)}

----------------------------------------------------------------------------
(* State *)

VARIABLES
    pc,                 \* position of the caller inside run
    args,               \* arguments of the current run
    result,             \* the dict `result` of run
    generation_result,  \* local of run, also the result of a direct generate
    validation_result,  \* local of run and of _attempt_auto_fix
    attempt,            \* loop variable of _attempt_auto_fix
    fix_instructions,   \* local of _attempt_auto_fix: the instruction lines
    genCalls,           \* generator.generate calls made by the current run
    valCalls,           \* validator.validate calls made by the current run
    lastGenCall,        \* arguments and prompt of the latest generate call
    lastValCall,        \* arguments of the latest validate call
    firstValid,         \* the first validation of the run had is_valid truthy
    scenarioC,          \* every validation of the run so far was invalid
                        \* with a major issue, and no regeneration failed
    suggestion,         \* result of the latest suggest_template
    genOk,              \* generate calls of the current run that succeeded
    call,               \* a direct call outside run: its inputs, the
                        \* service's reply and what it returned
    others              \* the run invocations that are in progress while
                        \* another one executes, each with its own locals

vars ==
    <<pc, args, result, generation_result, validation_result, attempt,
      fix_instructions, genCalls, valCalls, lastGenCall, lastValCall,
      firstValid, scenarioC, suggestion, genOk, call, others, registry>>

\* state that no step of run touches
outside == <<suggestion, call, others, registry>>

\* outcomes of the service while invocations of run are interleaved: a text,
\* another text, a raise
ConcurrentGenOutcomes ==
    {[kind |-> "raise", err |-> "quota exceeded", text |-> ""],
     [kind |-> "text", err |-> "", text |-> "docA"],
     [kind |-> "text", err |-> "", text |-> "docB"]}

\* replies of the service to a grading prompt while invocations of run are
\* interleaved: a raise, a passing verdict, a failing one with a major issue
ConcurrentValReplies ==
    {[kind |-> "raise", err |-> "service unavailable", text |-> "",
      obj |-> EmptyDict],
     [kind |-> "object", err |-> "", text |-> "",
      obj |-> ReplyObject(JBool(TRUE), JNum(85), JAbsent, JAbsent)],
     [kind |-> "object", err |-> "", text |-> "",
      obj |-> ReplyObject(JBool(FALSE), JNum(85), JList(<<MajorIssue>>),
                          JAbsent)]}

\* the outcomes a generation call of run draws from: all of them for a
\* single invocation, the smaller set when another invocation is in progress
ServiceOutcomes ==
    IF Len(others) = 0 THEN GenOutcomes ELSE ConcurrentGenOutcomes

\* the replies a validation call of run draws from
ServiceReplies ==
    IF Len(others) = 0 THEN ValReplies ELSE ConcurrentValReplies

\* run has returned or raised
Returned == pc \in {"done", "failed", "raised"}

\* run is executing
InRun ==
    pc \in {"generate", "generated", "validate", "check_fix", "loop",
            "regenerate", "revalidate", "check_valid"}

NoArgs ==
    [user_requirement |-> <<>>, template_name |-> None,
     custom_instructions |-> NoInstructions, validate |-> TRUE,
     auto_fix |-> FALSE, max_retries |-> 2]

\* run, lines 50-58
InitialResult(user_requirement) ==
    [success |-> FALSE, user_requirement |-> user_requirement,
     template_used |-> None, srs_document |-> None,
     validation_result |-> None, iterations |-> 0, final_score |-> JNum(0),
     error |-> None]

----------------------------------------------------------------------------
(* SRSPipeline.run *)

\* entry of run with the given arguments, lines 28-58
Enter(a) ==
    /\ pc = "idle"
    /\ args' = a
    /\ result' = InitialResult(a.user_requirement)
    /\ generation_result' = None
    /\ validation_result' = None
    /\ attempt' = 0
    /\ fix_instructions' = <<>>
    /\ genCalls' = 0
    /\ valCalls' = 0
    /\ lastGenCall' = None
    /\ lastValCall' = None
    /\ firstValid' = FALSE
    /\ scenarioC' = TRUE
    /\ genOk' = 0
    /\ pc' = "generate"
    /\ UNCHANGED outside

\* a caller invokes run
Run ==
    \E ur \in Requirements, tn \in TemplateNameArgs, ci \in InstructionArgs,
       v \in BOOLEAN, af \in BOOLEAN, mr \in RetryArgs :
        Enter([user_requirement |-> ur, template_name |-> tn,
               custom_instructions |-> ci, validate |-> v, auto_fix |-> af,
               max_retries |-> mr])

\* quick_generate, lines 205-208: run with validate=False and the defaults
QuickGenerate ==
    \E ur \in Requirements :
        Enter([user_requirement |-> ur, template_name |-> None,
               custom_instructions |-> NoInstructions, validate |-> FALSE,
               auto_fix |-> FALSE, max_retries |-> 2])

\* the record of one generate call
GenCall(user_requirement, template_name, custom_instructions) ==
    Some([user_requirement |-> user_requirement,
          template_name |-> template_name,
          custom_instructions |-> custom_instructions,
          prompt |-> BuildPrompt(user_requirement, template_name,
                                 custom_instructions)])

\* the failure of the first generation not noticed
GenerationFailed_never(g) == FALSE

\* run, line 67: `if not generation_result.get("success")`
GenerationFailed(g) == ~g.success

\* run, lines 60-75: the first generation and the recording of its result
GenerateFirst ==
    /\ pc = "generate"
    /\ genCalls' = genCalls + 1
    /\ lastGenCall' = GenCall(args.user_requirement, args.template_name,
                              args.custom_instructions)
    /\ \E o \in ServiceOutcomes :
        \E g \in {Generate(args.user_requirement, args.template_name,
                            args.custom_instructions, o)} :
            /\ generation_result' = Some(g)
            /\ genOk' = IF g.success THEN genOk + 1 ELSE genOk
            /\ IF GenerationFailed(g)
               THEN /\ result' = [result EXCEPT !.error = g.error]
                    /\ pc' = "failed"
               ELSE /\ result' = [result EXCEPT
                                    !.srs_document = g.srs_document,
                                    !.template_used = Some(g.template_used),
                                    !.iterations = 1]
                    /\ pc' = "generated"
    /\ UNCHANGED <<args, validation_result, attempt, fix_instructions,
                   valCalls, lastValCall, firstValid, scenarioC, outside>>

\* run, lines 98-99: `result["success"] = True; return result`, reached
\* when validation is skipped, when auto-fix is skipped and when
\* _attempt_auto_fix returns
Return ==
    /\ result' = [result EXCEPT !.success = TRUE]
    /\ pc' = "done"

\* validation run whatever the flag
ValidationRequested_always(validate) == TRUE

\* run, line 78: `if validate`
ValidationRequested(validate) == validate

\* run, lines 77-78 and 98-99: validate if requested, else return
CheckValidate ==
    /\ pc = "generated"
    /\ IF ValidationRequested(args.validate)
       THEN pc' = "validate" /\ UNCHANGED result
       ELSE Return
    /\ UNCHANGED <<args, generation_result, validation_result,
                   attempt, fix_instructions, genCalls, valCalls, lastGenCall,
                   lastValCall, firstValid, scenarioC, genOk,
                   outside>>

\* validation_result.get("is_valid", False) is truthy
IsValid(vr) == Truthy(Get(vr, "is_valid", JBool(FALSE)))

\* number of elements of a decoded "issues" value that are dicts with
\* severity critical or major (severe), or exactly major
CountIssues(v, severities) ==
    IF v.t # "list" THEN 0
    ELSE Cardinality({i \in 1..Len(v.l) :
            IsDict(v.l[i]) /\ v.l[i].severity \in severities})

\* number of elements of a decoded "suggestions" value with priority high
CountHigh(v) ==
    IF v.t # "list" THEN 0
    ELSE Cardinality({i \in 1..Len(v.l) :
            IsDict(v.l[i]) /\ v.l[i].priority = JStr("high")})

\* the record of one validate call
ValCall(srs_document, template_name, validation_criteria) ==
    Some([srs_document |-> srs_document, template_name |-> template_name,
          validation_criteria |-> validation_criteria,
          criteria_used |-> CriteriaUsed(template_name, validation_criteria)])

\* run, lines 79-87: the first validation
ValidateFirst ==
    /\ pc = "validate"
    /\ valCalls' = valCalls + 1
    /\ lastValCall' = ValCall(result.srs_document[1], result.template_used[1],
                              generation_result[1].validation_criteria)
    /\ pc' = "check_fix"
    /\ \E reply \in ServiceReplies :
        \E vr \in {Validate(result.srs_document[1], args.user_requirement,
                             result.template_used[1],
                             generation_result[1].validation_criteria, reply)} :
            /\ validation_result' = Some(vr)
            /\ result' = [result EXCEPT
                             !.validation_result = Some(vr),
                             !.final_score = Get(vr, "score", JNum(0))]
            /\ firstValid' = IsValid(vr)
            /\ scenarioC' = (/\ scenarioC
                             /\ ~IsValid(vr)
                             /\ CountIssues(vr.issues, {JStr("major")}) > 0)
    /\ UNCHANGED <<args, generation_result, attempt, fix_instructions,
                   genCalls, lastGenCall, genOk,
                   outside>>

\* auto-fix entered whenever it is enabled
NeedsAutoFix_always(auto_fix, vr) == auto_fix

\* run, line 90: `if auto_fix and not validation_result.get("is_valid", False)`
NeedsAutoFix(auto_fix, vr) == auto_fix /\ ~IsValid(vr)

\* run, lines 90-96: enter _attempt_auto_fix or skip it
CheckAutoFix ==
    /\ pc = "check_fix"
    /\ IF NeedsAutoFix(args.auto_fix, validation_result[1])
       THEN pc' = "loop" /\ attempt' = 0 /\ UNCHANGED result
       ELSE Return /\ UNCHANGED attempt
    /\ UNCHANGED <<args, generation_result, validation_result,
                   fix_instructions, genCalls, valCalls, lastGenCall,
                   lastValCall, firstValid, scenarioC, genOk,
                   outside>>

\* the loop test taken inclusively: one round too many
RangeHasNext_inclusive(rounds, max_retries) == rounds <= max_retries

\* _attempt_auto_fix, line 119: `for attempt in range(max_retries)` has a
\* next value after `attempt` rounds
RangeHasNext(rounds, max_retries) == rounds < max_retries

\* _attempt_auto_fix, lines 119-127: the loop test, the fix instructions and
\* the break on an empty text; a raise in _build_fix_instructions leaves run
LoopTop ==
    /\ pc = "loop"
    /\ IF RangeHasNext(attempt, args.max_retries)
       THEN \E built \in {_build_fix_instructions(
                    Get(validation_result[1], "issues", JList(<<>>)),
                    Get(validation_result[1], "suggestions", JList(<<>>)))} :
                /\ fix_instructions' = built.lines
                /\ IF built.raised
                   THEN pc' = "raised" /\ UNCHANGED result
                   ELSE IF Len(built.lines) = 0
                   THEN Return
                   ELSE pc' = "regenerate" /\ UNCHANGED result
       ELSE /\ Return
            /\ UNCHANGED fix_instructions
    /\ UNCHANGED <<args, generation_result, validation_result,
                   attempt, genCalls, valCalls, lastGenCall, lastValCall,
                   firstValid, scenarioC, genOk,
                   outside>>

\* a retry that leaves the count as it was
NextIteration_same(n) == n

\* _attempt_auto_fix, line 140: `result["iterations"] += 1`
NextIteration(n) == n + 1

\* the caller's template argument passed again
RetryTemplate_asGiven(template_used, template_name) == template_name

\* _attempt_auto_fix, line 132: `template_name=result["template_used"]`
RetryTemplate(template_used, template_name) == template_used

\* the caller's instructions passed again when the caller gave some
RetryInstructions_callerFirst(fix_lines, custom_instructions) ==
    IF TruthyInstructions(custom_instructions)
    THEN custom_instructions
    ELSE FixPrompt(fix_lines)

\* _attempt_auto_fix, line 133: the extra instructions of a regeneration
\* are the context prefix and the fix instructions, nothing else
RetryInstructions(fix_lines, custom_instructions) == FixPrompt(fix_lines)

\* the document of the latest regeneration recorded even when it failed
KeptDocument_latest(document, g) == g.srs_document

\* _attempt_auto_fix, lines 136-139: the break on a failed regeneration
\* comes before the assignment of result["srs_document"]
KeptDocument(document, g) ==
    IF GenerationFailed(g) THEN document ELSE g.srs_document

\* _attempt_auto_fix, lines 129-140 and 98-99: regenerate with the fix
\* instructions; a failure leaves the loop and run returns
Regenerate ==
    /\ pc = "regenerate"
    /\ genCalls' = genCalls + 1
    /\ lastGenCall' = GenCall(args.user_requirement,
                              RetryTemplate(result.template_used,
                                            args.template_name),
                              RetryInstructions(fix_instructions,
                                                args.custom_instructions))
    /\ \E o \in ServiceOutcomes :
        \E g \in {Generate(args.user_requirement,
                            RetryTemplate(result.template_used,
                                          args.template_name),
                            RetryInstructions(fix_instructions,
                                              args.custom_instructions),
                            o)} :
            /\ genOk' = IF g.success THEN genOk + 1 ELSE genOk
            /\ IF GenerationFailed(g)
               THEN /\ result' = [result EXCEPT
                                    !.srs_document = KeptDocument(@, g),
                                    !.success = TRUE]
                    /\ pc' = "done"
                    /\ scenarioC' = FALSE
               ELSE /\ result' = [result EXCEPT
                                    !.srs_document = KeptDocument(@, g),
                                    !.iterations = NextIteration(@)]
                    /\ pc' = "revalidate"
                    /\ UNCHANGED scenarioC
    /\ UNCHANGED <<args, generation_result, validation_result, attempt,
                   fix_instructions, valCalls, lastValCall, firstValid,
                   outside>>

\* _attempt_auto_fix, lines 142-150: validate the regenerated document
Revalidate ==
    /\ pc = "revalidate"
    /\ valCalls' = valCalls + 1
    /\ lastValCall' = ValCall(result.srs_document[1], result.template_used[1],
                              None)
    /\ pc' = "check_valid"
    /\ \E reply \in ServiceReplies :
        \E vr \in {Validate(result.srs_document[1], args.user_requirement,
                             result.template_used[1], None, reply)} :
            /\ validation_result' = Some(vr)
            /\ result' = [result EXCEPT
                             !.validation_result = Some(vr),
                             !.final_score = Get(vr, "score", JNum(0))]
            /\ scenarioC' = (/\ scenarioC
                             /\ ~IsValid(vr)
                             /\ CountIssues(vr.issues, {JStr("major")}) > 0)
    /\ UNCHANGED <<args, generation_result, attempt, fix_instructions,
                   genCalls, lastGenCall, firstValid, genOk,
                   outside>>

\* the loop without its early exit
StopOnValid_never(vr) == FALSE

\* _attempt_auto_fix, line 153: `if validation_result.get("is_valid", False)`
StopOnValid(vr) == IsValid(vr)

\* _attempt_auto_fix, lines 152-154 and the loop increment: stop when the
\* validation passes, else take the next attempt
CheckValid ==
    /\ pc = "check_valid"
    /\ IF StopOnValid(validation_result[1])
       THEN Return /\ UNCHANGED attempt
       ELSE pc' = "loop" /\ attempt' = attempt + 1 /\ UNCHANGED result
    /\ UNCHANGED <<args, generation_result, validation_result,
                   fix_instructions, genCalls, valCalls, lastGenCall,
                   lastValCall, firstValid, scenarioC, genOk,
                   outside>>

----------------------------------------------------------------------------
(* Operations outside run *)

\* SRSGenerator.get_template_info
get_template_info(template_name) ==
    IF IsNone(get_template(template_name))
    THEN None
    ELSE Some([name |-> get_template(template_name)[1],
               validation_criteria |->
                   TemplateCriteria(get_template(template_name)[1])])

\* SRSPipeline.suggest_template applied to the requirement of args
SuggestTemplate ==
    /\ pc = "suggest"
    /\ LET suggested == get_template_for_requirement(args.user_requirement)
       IN  suggestion' = Some([suggested_template |-> suggested,
                               template_info |-> get_template_info(suggested)])
    /\ pc' = "suggested"
    /\ UNCHANGED <<args, result, generation_result, validation_result,
                   attempt, fix_instructions, genCalls, valCalls, lastGenCall,
                   lastValCall, firstValid, scenarioC, genOk, call, others,
                   registry>>

\* a direct call of SRSGenerator.generate, outside any run, with the
\* requirement, template name and instructions of args
GeneratorGenerate ==
    /\ pc = "call_generate"
    /\ \E o \in GenOutcomes :
        /\ generation_result' = Some(Generate(args.user_requirement,
                                              args.template_name,
                                              args.custom_instructions, o))
        /\ call' = Some([op |-> "generate", outcome |-> o])
    /\ lastGenCall' = GenCall(args.user_requirement, args.template_name,
                              args.custom_instructions)
    /\ pc' = "generate_returned"
    /\ UNCHANGED <<args, result, validation_result, attempt,
                   fix_instructions, genCalls, valCalls, lastValCall,
                   firstValid, scenarioC, suggestion, genOk, others,
                   registry>>

\* template_name arguments of a direct validate call: registered ids, one
\* in upper case, and an id that is not registered
ValTemplateNames == {Agile, <<"I","E","E","E">>, <<"f","o","o">>}

\* a criteria list supplied by the caller, of the given length
CallerCriteria(n) == [source |-> "caller", template |-> <<>>, count |-> n]

\* validation_criteria arguments of a direct validate call: omitted, the
\* empty list, and a list of two criteria
ValCriteriaArgs == {None, Some(CallerCriteria(0)), Some(CallerCriteria(2))}

\* a direct call of SRSValidator.validate, outside any run, with the
\* template name and criteria of `call`
ValidatorValidate ==
    /\ pc = "call_validate"
    /\ \E reply \in ValReplies :
        /\ validation_result' =
              Some(Validate("docA", args.user_requirement,
                            call[1].template_name,
                            call[1].validation_criteria, reply))
        /\ call' = Some([call[1] EXCEPT !.reply = Some(reply)])
    /\ lastValCall' = ValCall("docA", call[1].template_name,
                              call[1].validation_criteria)
    /\ pc' = "validate_returned"
    /\ UNCHANGED <<args, result, generation_result, attempt,
                   fix_instructions, genCalls, valCalls, lastGenCall,
                   firstValid, scenarioC, suggestion, genOk, others,
                   registry>>

\* payloads that are structured data
PayloadVerdict ==
    <<"{", Quote, "is_valid", Quote, ":", " ", "true", ",", " ",
      Quote, "score", Quote, ":", " ", "90", "}">>

PayloadEmptyObject == <<"{", "}">>

PayloadArray == <<"[", "0", ",", " ", "90", "]">>

PayloadNumber == <<"150">>

PayloadNull == <<"null">>

PayloadString == <<Quote, "looks", " ", "fine", Quote>>

PayloadIssues ==
    <<"{", NL, Quote, "is_valid", Quote, ":", " ", "false", ",", NL,
      Quote, "issues", Quote, ":", " ", "[", "{", Quote, "severity", Quote,
      ":", " ", Quote, "major", Quote, "}", "]", NL, "}">>

PayloadRepeatedKey ==
    <<"{", Quote, "score", Quote, ":", "85", ",", Quote, "is_valid", Quote,
      ":", "true", ",", Quote, "score", Quote, ":", "0", "}">>

\* a string value that mentions the fence marker once
PayloadFenceInString ==
    <<"{", Quote, "overall_assessment", Quote, ":", " ",
      Quote, "use", " ", Fence, " ", "fences", Quote, "}">>

\* a string value that mentions the fence marker twice
PayloadTwoFencesInString ==
    <<"{", Quote, "overall_assessment", Quote, ":", " ",
      Quote, "use", " ", Fence, "x", Fence, Quote, "}">>

JsonPayloads ==
    {PayloadVerdict, PayloadEmptyObject, PayloadArray, PayloadNumber,
     PayloadNull, PayloadString, PayloadIssues, PayloadRepeatedKey,
     PayloadFenceInString, PayloadTwoFencesInString}

\* texts that are not structured data: prose, nothing, a truncated object,
\* an object followed by prose, an unquoted key, a line break inside a
\* string, a trailing comma
Prose == <<"The", " ", "document", " ", "looks", " ", "fine.">>

NonJsonBodies ==
    {Prose,
     <<>>,
     <<"{", Quote, "is_valid", Quote, ":", " ">>,
     <<"{", Quote, "score", Quote, ":", "0", "}", " ", "thanks">>,
     <<"{", "is_valid", ":", "true", "}">>,
     <<Quote, "looks", NL, "fine", Quote>>,
     <<"[", "0", ",", "]">>}

\* the ways a reply carries its body: alone, in a fenced block with or
\* without the tag json, without line breaks, with prose around the block,
\* with extra white space, and after prose without a fence
FencedWrappers ==
    {"fenced_json", "fenced", "fenced_inline", "fenced_in_prose",
     "fenced_spaced"}

Wrappers == {"bare", "after_prose"} \cup FencedWrappers

\* the reply text that carries the body in the given way
Wrap(wrapper, body) ==
    CASE wrapper = "bare" -> body
      [] wrapper = "fenced_json" ->
            <<Fence, JsonTag, NL>> \o body \o <<NL, Fence>>
      [] wrapper = "fenced" -> <<Fence, NL>> \o body \o <<NL, Fence>>
      [] wrapper = "fenced_inline" -> <<Fence>> \o body \o <<Fence>>
      [] wrapper = "fenced_in_prose" ->
            <<"Here", " ", "it", " ", "is:", NL, Fence, JsonTag, NL>>
            \o body \o <<NL, Fence, NL, "Hope", " ", "it", " ", "helps.">>
      [] wrapper = "fenced_spaced" ->
            <<Fence, JsonTag, " ", NL, NL, " ">> \o body
            \o <<" ", NL, NL, Fence, NL>>
      [] wrapper = "after_prose" -> <<"Here", " ", "it", " ", "is:", " ">> \o body

\* _parse_validation_response called on the reply text of `call`, and on
\* the body of that reply alone
ParseResponse ==
    /\ pc = "call_parse"
    /\ call' = Some([call[1] EXCEPT
                       !.parsed = Some(ParseResponseText(call[1].text)),
                       !.parsed_body = Some(ParseResponseText(call[1].body))])
    /\ pc' = "parse_returned"
    /\ UNCHANGED <<args, result, generation_result, validation_result,
                   attempt, fix_instructions, genCalls, valCalls, lastGenCall,
                   lastValCall, firstValid, scenarioC, suggestion, genOk,
                   others, registry>>

\* the state before a call with arguments a, at position p, c being the
\* inputs of a direct call
InitWithCall(p, a, c) ==
    /\ pc = p
    /\ args = a
    /\ result = InitialResult(<<>>)
    /\ generation_result = None
    /\ validation_result = None
    /\ attempt = 0
    /\ fix_instructions = <<>>
    /\ genCalls = 0
    /\ valCalls = 0
    /\ lastGenCall = None
    /\ lastValCall = None
    /\ firstValid = FALSE
    /\ scenarioC = TRUE
    /\ suggestion = None
    /\ genOk = 0
    /\ call = c
    /\ others = <<>>
    /\ registry = TemplateIds

\* the state before a call with arguments a, at position p
InitWith(p, a) == InitWithCall(p, a, None)

InitSuggest ==
    \E ur \in SelInputs :
        InitWith("suggest", [NoArgs EXCEPT !.user_requirement = ur])

InitGenerate ==
    \E ur \in GenRequirements, tn \in GenTemplateNames,
       ci \in InstructionArgs :
        InitWith("call_generate",
                 [NoArgs EXCEPT !.user_requirement = ur, !.template_name = tn,
                                !.custom_instructions = ci])

InitValidate ==
    \E tn \in ValTemplateNames, vc \in ValCriteriaArgs :
        InitWithCall("call_validate", NoArgs,
                     Some([op |-> "validate", template_name |-> tn,
                           validation_criteria |-> vc, reply |-> None]))

InitParse ==
    \E w \in Wrappers, b \in JsonPayloads \cup NonJsonBodies :
        InitWithCall("call_parse", NoArgs,
                     Some([op |-> "parse", wrapper |-> w, body |-> b,
                           structured |-> b \in JsonPayloads,
                           text |-> Wrap(w, b), parsed |-> None,
                           parsed_body |-> None]))

\* suggestions handed to _build_fix_instructions
MaxSuggestions == 4

RECURSIVE Lists(_, _)
\* the lists of at most n elements of S
Lists(S, n) ==
    IF n = 0 THEN {<<>>}
    ELSE Lists(S, n - 1)
         \cup {Append(l, x) : l \in {m \in Lists(S, n - 1) : Len(m) = n - 1},
                               x \in S}

\* "issues" values handed to _build_fix_instructions: lists of at most two
\* issues of any severity, null, and a list of plain strings
FixIssueArgs ==
    {JList(l) : l \in Lists({MinorIssue, MajorIssue, CriticalIssue}, 2)}
    \cup {JNull, JList(<<JStr("missing scope")>>)}

\* "suggestions" values handed to _build_fix_instructions: lists of high
\* and low priority suggestions, and null
FixSuggestionArgs ==
    {JList(l) : l \in Lists({HighSuggestion, LowSuggestion}, MaxSuggestions)}
    \cup {JNull}

\* SRSPipeline._build_fix_instructions called on the issues and suggestions
\* of `call`
BuildFixInstructions ==
    /\ pc = "call_build"
    /\ \E built \in {_build_fix_instructions(call[1].issues,
                                               call[1].suggestions)} :
        /\ fix_instructions' = built.lines
        /\ pc' = IF built.raised THEN "build_raised" ELSE "built"
    /\ UNCHANGED <<args, result, generation_result, validation_result,
                   attempt, genCalls, valCalls, lastGenCall, lastValCall,
                   firstValid, scenarioC, genOk, outside>>

InitFix ==
    \E is \in FixIssueArgs, sg \in FixSuggestionArgs :
        InitWithCall("call_build", NoArgs,
                     Some([op |-> "build", issues |-> is,
                           suggestions |-> sg]))

\* the fix instructions built from issues and suggestions
SpecFix == InitFix /\ [][BuildFixInstructions]_vars

\* the validator called directly
SpecValidate == InitValidate /\ [][ValidatorValidate]_vars

\* the validator's parser applied to reply texts
SpecParse == InitParse /\ [][ParseResponse]_vars

\* the template selector applied to requirement texts
SpecSuggest == InitSuggest /\ [][SuggestTemplate]_vars

\* the generator called directly
SpecGenerate == InitGenerate /\ [][GeneratorGenerate]_vars

\* an SRSPipeline after construction, no call made yet
Init == InitWith("idle", NoArgs)

Next ==
    \/ Run
    \/ QuickGenerate
    \/ GenerateFirst
    \/ CheckValidate
    \/ ValidateFirst
    \/ CheckAutoFix
    \/ LoopTop
    \/ Regenerate
    \/ Revalidate
    \/ CheckValid

Spec == Init /\ [][Next]_vars

----------------------------------------------------------------------------
(* Several invocations of run in progress at once *)

\* The locals of the invocation of run that is executing, lines 28-156:
\* its arguments, its position, the dict `result` built at line 50 and the
\* locals of _attempt_auto_fix, with the records kept about its own calls.
CurrentFrame ==
    [pc |-> pc, args |-> args, result |-> result,
     generation_result |-> generation_result,
     validation_result |-> validation_result, attempt |-> attempt,
     fix_instructions |-> fix_instructions, genCalls |-> genCalls,
     valCalls |-> valCalls, lastGenCall |-> lastGenCall,
     lastValCall |-> lastValCall, firstValid |-> firstValid,
     scenarioC |-> scenarioC, genOk |-> genOk]

\* the locals of an invocation that has not entered run yet
IdleFrame ==
    [pc |-> "idle", args |-> NoArgs, result |-> InitialResult(<<>>),
     generation_result |-> None, validation_result |-> None, attempt |-> 0,
     fix_instructions |-> <<>>, genCalls |-> 0, valCalls |-> 0,
     lastGenCall |-> None, lastValCall |-> None, firstValid |-> FALSE,
     scenarioC |-> TRUE, genOk |-> 0]

\* invocations suspended while another one executes
MaxSuspended == 1

\* arguments of the invocations that run side by side: two requirements,
\* one with a template named, validation and auto-fix on, one retry
ConcurrentArgs ==
    {[user_requirement |-> ReqIeeePitch, template_name |-> None,
      custom_instructions |-> NoInstructions, validate |-> TRUE,
      auto_fix |-> TRUE, max_retries |-> 1],
     [user_requirement |-> ReqApp,
      template_name |-> Some(<<"M","i","n","i","m","a","l">>),
      custom_instructions |-> NoInstructions, validate |-> TRUE,
      auto_fix |-> TRUE, max_retries |-> 1]}

\* a caller invokes run while other invocations exist, routes.py lines
\* 146-156
RunBeside ==
    /\ Len(others) > 0
    /\ \E a \in ConcurrentArgs : Enter(a)

\* `result` kept on an object the invocations share
OwnResult_shared(saved, current) == current

\* run, line 50: `result = {...}` is a local of the invocation, so the
\* invocation that resumes finds the dict it built itself (saved) and not
\* the one of the invocation that just ran (current)
OwnResult(saved, current) == saved

\* The executing invocation is suspended, at a service call or anywhere
\* else, and a suspended one resumes with its own locals.
Switch ==
    \E i \in 1..Len(others) :
        /\ others' = [others EXCEPT ![i] = CurrentFrame]
        /\ pc' = others[i].pc
        /\ args' = others[i].args
        /\ result' = OwnResult(others[i].result, result)
        /\ generation_result' = others[i].generation_result
        /\ validation_result' = others[i].validation_result
        /\ attempt' = others[i].attempt
        /\ fix_instructions' = others[i].fix_instructions
        /\ genCalls' = others[i].genCalls
        /\ valCalls' = others[i].valCalls
        /\ lastGenCall' = others[i].lastGenCall
        /\ lastValCall' = others[i].lastValCall
        /\ firstValid' = others[i].firstValid
        /\ scenarioC' = others[i].scenarioC
        /\ genOk' = others[i].genOk
        /\ UNCHANGED <<suggestion, call, registry>>

\* pipelines constructed, no invocation has entered run yet
InitConcurrent ==
    /\ pc = "idle"
    /\ args = NoArgs
    /\ result = InitialResult(<<>>)
    /\ generation_result = None
    /\ validation_result = None
    /\ attempt = 0
    /\ fix_instructions = <<>>
    /\ genCalls = 0
    /\ valCalls = 0
    /\ lastGenCall = None
    /\ lastValCall = None
    /\ firstValid = FALSE
    /\ scenarioC = TRUE
    /\ suggestion = None
    /\ genOk = 0
    /\ call = None
    /\ others \in {[i \in 1..n |-> IdleFrame] : n \in 1..MaxSuspended}
    /\ registry = TemplateIds

NextConcurrent ==
    \/ RunBeside
    \/ Switch
    \/ GenerateFirst
    \/ CheckValidate
    \/ ValidateFirst
    \/ CheckAutoFix
    \/ LoopTop
    \/ Regenerate
    \/ Revalidate
    \/ CheckValid

\* invocations of run interleaved at every step
SpecConcurrent == InitConcurrent /\ [][NextConcurrent]_vars

----------------------------------------------------------------------------
(* Claims C1-C10 *)

\* the latest validation result of the run
LatestResult == validation_result[1]

\* the latest validation result has something to fix: a FIX or IMPROVE
\* line would be built from it
Actionable(vr) ==
    \/ CountIssues(Get(vr, "issues", JList(<<>>)),
                   {JStr("critical"), JStr("major")}) > 0
    \/ CountHigh(Get(vr, "suggestions", JList(<<>>))) > 0

\* C1: for max_retries = N >= 0 a run makes at most N+1 generate calls and,
\* once it has returned, at least 1; the auto-fix loop executes at most N
\* regenerate+validate rounds.
C1_IterationBound ==
    (pc # "idle" /\ args.max_retries >= 0) =>
        /\ genCalls <= args.max_retries + 1
        /\ valCalls <= args.max_retries + 1
        /\ attempt <= args.max_retries
        /\ Returned => genCalls >= 1

\* a run that used every retry
C1_Witness ==
    /\ pc = "done"
    /\ args.max_retries >= 1
    /\ genCalls = args.max_retries + 1
    /\ valCalls = args.max_retries + 1

\* C2: once a round of the auto-fix loop has a validation result with
\* is_valid true, the run returns without another generate or validate call.
C2_EarlyExit ==
    [][(InRun /\ valCalls >= 2 /\ IsValid(LatestResult)) =>
         (pc' = "done" /\ genCalls' = genCalls /\ valCalls' = valCalls)]_vars

\* a run that returned after the first retry round passed, with a retry left
\* and with findings that would have produced fix instructions
C2_Witness ==
    /\ pc = "done"
    /\ valCalls = 2
    /\ genCalls = 2
    /\ IsValid(LatestResult)
    /\ Actionable(LatestResult)
    /\ attempt + 1 < args.max_retries

\* C3: with validate and auto_fix set, after an invalid validation result
\* with no critical or major issue and no high-priority suggestion the run
\* makes no further generate and no further validate call.
C3_NoOpShortCircuit ==
    [][(/\ InRun
        /\ args.validate /\ args.auto_fix
        /\ valCalls >= 1
        /\ ~IsValid(LatestResult)
        /\ ~Actionable(LatestResult)) =>
         (genCalls' = genCalls /\ valCalls' = valCalls)]_vars

\* a run with retries available that returned after one generation and one
\* validation, the result invalid with a minor issue and a medium suggestion
C3_Witness ==
    /\ pc = "done"
    /\ args.auto_fix /\ args.max_retries > 0
    /\ genCalls = 1 /\ valCalls = 1
    /\ ~IsValid(LatestResult)
    /\ LatestResult.issues = JList(<<MinorIssue>>)
    /\ LatestResult.suggestions = JList(<<MediumSuggestion>>)

\* C4: a run with validate = false makes no validate call and, when it has
\* returned, exactly one generate call, with validation_result absent and
\* final_score 0.
C4_QuickGenerate ==
    (pc # "idle" /\ ~args.validate) =>
        /\ valCalls = 0
        /\ Returned =>
              /\ genCalls = 1
              /\ result.validation_result = None
              /\ result.final_score = JNum(0)

\* a run without validation that returned a document although auto_fix was
\* set and retries were available
C4_Witness ==
    /\ pc = "done"
    /\ ~args.validate /\ args.auto_fix /\ args.max_retries = MaxRetries
    /\ result.srs_document # None

\* C5: with validate and auto_fix set and max_retries = N, when every
\* generation succeeds and every validation is invalid with at least one
\* major issue, the run makes N+1 generate calls and N+1 validate calls and
\* returns iterations = N+1 and succeeded = true.
C5_ScenarioC ==
    (/\ Returned
     /\ args.validate /\ args.auto_fix /\ args.max_retries >= 0
     /\ generation_result[1].success
     /\ scenarioC) =>
        /\ pc = "done"
        /\ genCalls = args.max_retries + 1
        /\ valCalls = args.max_retries + 1
        /\ result.iterations = args.max_retries + 1
        /\ result.success

\* C6: when the first validation has is_valid true, the run makes exactly
\* one generate call and one validate call and returns iterations = 1.
C6_ScenarioD ==
    (Returned /\ args.validate /\ firstValid) =>
        /\ pc = "done"
        /\ genCalls = 1
        /\ valCalls = 1
        /\ result.iterations = 1

\* such a run with auto_fix set, retries available and a major issue
\* reported along with is_valid true
C6_Witness ==
    /\ pc = "done"
    /\ firstValid
    /\ args.auto_fix /\ args.max_retries >= 1
    /\ Actionable(LatestResult)

\* C7: when the first generate call fails, run returns at once with
\* succeeded false, error set, iterations 0, document and validation_result
\* absent and final_score 0, after one generate call and no validate call.
C7_FirstGenerationFails ==
    (pc \notin {"idle", "generate"} /\ ~generation_result[1].success) =>
        /\ pc = "failed"
        /\ ~result.success
        /\ result.error # None
        /\ result.iterations = 0
        /\ result.srs_document = None
        /\ result.validation_result = None
        /\ result.final_score = JNum(0)
        /\ genCalls = 1
        /\ valCalls = 0

\* a run with validation and auto-fix requested whose first generation
\* failed
C7_Witness ==
    /\ pc = "failed"
    /\ args.validate /\ args.auto_fix /\ args.max_retries >= 1
    /\ result.error = Some("quota exceeded")

\* C8: whenever the first generate call succeeds, run returns succeeded =
\* true with a document and iterations >= 1; succeeded = false occurs only
\* when the first generation fails.  (A run that leaves by an exception
\* returns nothing.)
C8_SucceedsAfterFirstGeneration ==
    (Returned /\ generation_result[1].success) =>
        /\ pc = "done"
        /\ result.success
        /\ result.srs_document # None
        /\ result.iterations >= 1

\* the generator called with arguments that differ from those of the latest
\* call only in the template name being omitted resolves to this id
OmittedResolution == ResolveTemplate(lastGenCall[1].user_requirement, None)

\* the template name of the latest generate call is given and not registered
UnrecognizedName ==
    /\ ~IsNone(lastGenCall[1].template_name)
    /\ Lower(lastGenCall[1].template_name[1]) \notin TemplateIds

\* C9 as stated: generate with an unrecognized template id resolves to the
\* same template_used, and builds the same prompt, as generate with the id
\* omitted.
C9_UnknownIdAsOmitted ==
    (pc = "generate_returned" /\ UnrecognizedName) =>
        /\ generation_result[1].template_used = OmittedResolution
        /\ lastGenCall[1].prompt =
              BuildPrompt(lastGenCall[1].user_requirement, None,
                          lastGenCall[1].custom_instructions)

\* C9 amended: generate with an unrecognized non-empty template id resolves
\* to agile whatever the requirement, so it agrees with the omitted id
\* exactly when the selector picks agile; an empty id is treated as omitted.
C9_UnknownIdFallsBackToAgile ==
    (pc = "generate_returned" /\ UnrecognizedName) =>
        IF Len(lastGenCall[1].template_name[1]) = 0
        THEN generation_result[1].template_used = OmittedResolution
        ELSE /\ generation_result[1].template_used = Agile
             /\ lastGenCall[1].prompt.template = Agile
             /\ (generation_result[1].template_used = OmittedResolution) <=>
                  (get_template_for_requirement(
                       lastGenCall[1].user_requirement) = Agile)

\* a call with an unregistered id and a requirement the selector maps to
\* ieee, resolved to agile
C9_Witness ==
    /\ pc = "generate_returned"
    /\ lastGenCall[1].template_name = Some(<<"f","o","o">>)
    /\ get_template_for_requirement(lastGenCall[1].user_requirement) = Ieee
    /\ generation_result[1].template_used = Agile

\* the keyword groups in their priority order
KeywordGroups ==
    <<[id |-> Ieee, keywords |-> {Ieee, KwFormal, KwAcademic}],
      [id |-> Startup, keywords |-> {Startup, KwInvestor, KwPitch}],
      [id |-> Minimal, keywords |-> {Minimal, KwQuick, KwMvp, KwSimple}],
      [id |-> Agile, keywords |-> {Agile, KwScrum, KwSprint, KwUserStory}]>>

\* the groups with a keyword occurring in the lowercased text
MatchingGroups(text) ==
    {i \in 1..Len(KeywordGroups) :
        \E k \in KeywordGroups[i].keywords : Contains(Lower(text), k)}

\* the id of the first matching group, agile when there is none
FirstMatch(text) ==
    IF MatchingGroups(text) = {} THEN Agile
    ELSE KeywordGroups[CHOOSE i \in MatchingGroups(text) :
                          \A j \in MatchingGroups(text) : i <= j].id

\* C10: for every requirement text, the empty one included, the selector
\* returns the id of the first keyword group, in the order ieee, startup,
\* minimal, agile, with a keyword in the lowercased text, and agile when no
\* group matches; a text with both "ieee" and "agile" resolves to ieee.
C10_SelectorPriority ==
    pc = "suggested" =>
        /\ suggestion[1].suggested_template = FirstMatch(args.user_requirement)
        /\ suggestion[1].suggested_template \in TemplateIds
        /\ (/\ Contains(Lower(args.user_requirement), Ieee)
            /\ Contains(Lower(args.user_requirement), Agile)) =>
              suggestion[1].suggested_template = Ieee

\* a text with "agile" before "ieee", in mixed case, resolved to ieee
C10_Witness ==
    /\ pc = "suggested"
    /\ args.user_requirement = <<"A","g","i","l","e">> \o Ieee
    /\ suggestion[1].suggested_template = Ieee

----------------------------------------------------------------------------
(* Claims C11-C20 *)

\* run has returned a result to its caller
ReturnedResult == pc \in {"done", "failed"}

\* C11 as stated: at return from run, iterations equals the number of
\* generate calls made during the run.
C11_IterationsCountCalls ==
    ReturnedResult => result.iterations = genCalls

\* C11 amended: at return from run, iterations equals the number of generate
\* calls of the run that succeeded; a failed call, the first one or a retry,
\* is made but not counted, so iterations is the number of calls, or one
\* less when the last call failed.
C11_IterationsCountSuccesses ==
    ReturnedResult =>
        /\ result.iterations = genOk
        /\ result.iterations \in {genCalls, genCalls - 1}

\* a run whose second retry failed: three calls, iterations 2
C11_Witness ==
    /\ pc = "done"
    /\ genCalls = 3
    /\ result.iterations = 2

\* C12 as stated: a run with max_retries = N makes at most 1 + 2*N calls to
\* the service, generate and validate calls together.
C12_CallBudget ==
    (pc # "idle" /\ args.max_retries >= 0) =>
        genCalls + valCalls <= 1 + 2 * args.max_retries

\* C12 amended: a run with max_retries = N >= 0 makes at most 2 + 2*N calls
\* to the service (the first generation, the first validation and N rounds
\* of two), and exactly 1 when validate is false; a negative N counts as 0.
C12_CallBudgetWithFirstValidation ==
    pc # "idle" =>
        /\ genCalls + valCalls <=
              2 + 2 * (IF args.max_retries >= 0 THEN args.max_retries ELSE 0)
        /\ (~args.validate /\ Returned) => genCalls + valCalls = 1

\* a run that made all 2 + 2*N calls
C12_Witness ==
    /\ pc = "done"
    /\ args.max_retries = MaxRetries
    /\ genCalls + valCalls = 2 + 2 * MaxRetries

\* the result of the latest direct validate call and the reply it got
ValidateResult == validation_result[1]

ValidateReply == call[1].reply[1]

\* C13: every result of validate whose success flag is false has is_valid
\* false and score 0, whatever the service did, a reply object with a key
\* named success included.
C13_FailedMeansInvalidZero ==
    (pc = "validate_returned" /\ ~Truthy(ValidateResult.success)) =>
        /\ ValidateResult.is_valid = JBool(FALSE)
        /\ ValidateResult.score = JNum(0)

\* the keys of a reply object that validate passes on as they are
PassedKeys ==
    {"error", "is_valid", "score", "overall_assessment", "issues",
     "suggestions", "section_analysis", "raw_response"}

\* C14: validate returns success false only when the service call raises;
\* whenever the service returns a reply the result has success true, with
\* the decoded fields of a reply object, and with the parse-failure fallback
\* for a reply that is prose or a JSON value that is not an object.
C14_FailsOnlyOnRaise ==
    pc = "validate_returned" =>
        /\ ~Truthy(ValidateResult.success) => ValidateReply.kind = "raise"
        /\ ValidateReply.kind # "raise" =>
              ValidateResult.success = JBool(TRUE)
        /\ ValidateReply.kind = "object" =>
              \A k \in PassedKeys : ValidateResult[k] = ValidateReply.obj[k]
        /\ ValidateReply.kind \in {"prose", "array"} =>
              /\ ValidateResult.is_valid = JBool(FALSE)
              /\ ValidateResult.score = JNum(0)
              /\ ValidateResult.overall_assessment =
                    JStr("Failed to parse validation response")

\* the reply and the result of the latest direct parser call
ParseCall == call[1]

Parsed == call[1].parsed[1]

\* dict lookup in a decoded object; JAbsent for a missing key
Field(obj, key) ==
    IF \E i \in 1..Len(obj.members) : obj.members[i].key = key
    THEN obj.members[CHOOSE i \in 1..Len(obj.members) :
                        obj.members[i].key = key].val
    ELSE JAbsent

\* the reply is not structured data: its body is not, or the body follows
\* prose with no fence around it
NotDecodable == ~ParseCall.structured \/ ParseCall.wrapper = "after_prose"

\* C15: for every reply text that is not decodable structured data the
\* parser returns is_valid false, score 0, the assessment "Failed to parse
\* validation response", exactly one issue, of severity critical and
\* category parsing, empty suggestions and section_analysis, and
\* raw_response equal to the reply text.
C15_ParseFailureFallback ==
    (pc = "parse_returned" /\ NotDecodable) =>
        /\ Parsed.t = "obj"
        /\ Field(Parsed, <<"is_valid">>) = JBool(FALSE)
        /\ Field(Parsed, <<"score">>) = JNum(0)
        /\ Field(Parsed, <<"overall_assessment">>) =
              JText(<<"Failed to parse validation response">>)
        /\ Field(Parsed, <<"issues">>).t = "list"
        /\ Len(Field(Parsed, <<"issues">>).l) = 1
        /\ Field(Field(Parsed, <<"issues">>).l[1], <<"severity">>) =
              JText(<<"critical">>)
        /\ Field(Field(Parsed, <<"issues">>).l[1], <<"category">>) =
              JText(<<"parsing">>)
        /\ Field(Parsed, <<"suggestions">>) = JList(<<>>)
        /\ Field(Parsed, <<"section_analysis">>) = JList(<<>>)
        /\ Field(Parsed, <<"raw_response">>) = JText(ParseCall.text)

\* a fenced block holding a truncated object, returned as the fallback with
\* the whole reply, fence included, as raw_response
C15_Witness ==
    /\ pc = "parse_returned"
    /\ ParseCall.wrapper = "fenced_json"
    /\ ParseCall.body = <<"{", Quote, "is_valid", Quote, ":", " ">>
    /\ Field(Parsed, <<"raw_response">>) = JText(ParseCall.text)
    /\ Head(ParseCall.text) = Fence

\* C16: for every structured-data payload, the parser applied to the payload
\* in a fenced block (with or without the tag json, with or without prose
\* around) returns what it returns for the payload alone, also when the
\* payload has a fence marker inside a string value.
C16_FencedParsesAsBare ==
    (/\ pc = "parse_returned"
     /\ ParseCall.structured
     /\ ParseCall.wrapper \in FencedWrappers) =>
        Parsed = ParseCall.parsed_body[1]

\* the outcome of the service in the latest direct generate call
GenerateOutcome == call[1].outcome

\* the id a generate call resolves to, from its arguments: the given name
\* lowercased when it is registered, agile when it is given and not
\* registered, the selector's choice when it is omitted or empty
ResolvedId ==
    IF TruthyStr(args.template_name)
    THEN IF Lower(args.template_name[1]) \in TemplateIds
         THEN Lower(args.template_name[1])
         ELSE Agile
    ELSE get_template_for_requirement(args.user_requirement)

\* C17: generate returns a result whatever the service does: success true
\* with the response text as document, the resolved id and no error when the
\* service call succeeds; success false with the stringified failure, the
\* resolved id and no document when it fails (a response without a text
\* fails inside the guarded block, at len()).
C17_GenerateNeverRaises ==
    pc = "generate_returned" =>
        /\ generation_result[1].template_used = ResolvedId
        /\ GenerateOutcome.kind = "text" =>
              /\ generation_result[1].success
              /\ generation_result[1].srs_document = Some(GenerateOutcome.text)
              /\ generation_result[1].error = None
        /\ GenerateOutcome.kind # "text" =>
              /\ ~generation_result[1].success
              /\ generation_result[1].srs_document = None
              /\ generation_result[1].error =
                    Some(IF GenerateOutcome.kind = "raise"
                         THEN GenerateOutcome.err
                         ELSE LenNoneError)

\* a call with an unregistered id whose service call raised: the failure
\* carries the fallback id
C17_Witness ==
    /\ pc = "generate_returned"
    /\ args.template_name = Some(<<"f","o","o">>)
    /\ GenerateOutcome.kind = "raise"
    /\ generation_result[1].error = Some("quota exceeded")
    /\ generation_result[1].template_used = Agile

\* a number between 0 and 100
InRange(v) == v.t = "num" /\ v.n >= 0 /\ v.n <= 100

\* C18: the score of every validation result, and the final_score of run's
\* result, lies in [0, 100], for every reply of the service.
C18_ScoreInRange ==
    /\ (validation_result # None /\ LatestResult.score # JAbsent) =>
          InRange(LatestResult.score)
    /\ InRange(result.final_score)

\* every invocation that exists: the executing one and the suspended ones
Invocations == {CurrentFrame} \cup {others[i] : i \in 1..Len(others)}

\* the result of invocation f is made of f's arguments and of the replies
\* to f's own service calls
OwnResultOnly(f) ==
    /\ f.result.user_requirement = f.args.user_requirement
    /\ f.result.iterations = f.genOk
    /\ f.result.template_used =
          IF f.genOk > 0 THEN Some(f.generation_result[1].template_used)
          ELSE None
    /\ f.result.validation_result = f.validation_result
    /\ f.result.final_score =
          IF f.valCalls = 0 THEN JNum(0)
          ELSE Get(f.validation_result[1], "score", JNum(0))
    /\ f.result.success => f.pc = "done"
    /\ f.genCalls > 0 =>
          f.lastGenCall[1].user_requirement = f.args.user_requirement
    /\ f.valCalls > 0 =>
          /\ f.lastValCall[1].template_name =
                f.generation_result[1].template_used
          /\ f.pc \in {"check_fix", "check_valid"} =>
                Some(f.lastValCall[1].srs_document) = f.result.srs_document

\* C19: with several invocations of run in progress and their steps
\* interleaved in any order, the result of each invocation is made of its
\* own arguments and of the replies to its own service calls only, and the
\* template catalog keeps the entries it was initialised with.
C19_InvocationsIndependent ==
    /\ registry = TemplateIds
    /\ \A f \in Invocations : f.pc # "idle" => OwnResultOnly(f)

\* two invocations with different arguments, both inside the auto-fix loop
\* after one validation each, holding different documents
C19_Witness ==
    /\ Len(others) > 0
    /\ pc = "revalidate"
    /\ others[1].pc = "regenerate"
    /\ args.user_requirement # others[1].args.user_requirement
    /\ valCalls = 1
    /\ others[1].valCalls = 1
    /\ result.srs_document = Some("docB")
    /\ others[1].result.srs_document = Some("docA")

\* an issue whose severity is critical or major
SevereIssue(i) == i.severity \in {JStr("critical"), JStr("major")}

\* a suggestion whose priority is high
HighPriority(sg) == sg.priority = JStr("high")

\* the FIX lines of the issues, one per severe issue, in issue order
ExpectedFix(issues) ==
    LET severe == SelectSeq(issues, SevereIssue)
    IN  [k \in 1..Len(severe) |->
            [kind |-> "FIX",
             text |-> IF severe[k].description = JAbsent
                      THEN JStr("Unknown issue")
                      ELSE severe[k].description]]

\* the IMPROVE lines, one per high-priority suggestion among the first
\* three suggestions
ExpectedImprove(suggestions) ==
    LET first == [k \in 1..(IF Len(suggestions) < 3 THEN Len(suggestions)
                                                     ELSE 3) |->
                     suggestions[k]]
        high == SelectSeq(first, HighPriority)
    IN  [k \in 1..Len(high) |->
            [kind |-> "IMPROVE",
             text |-> IF high[k].suggestion = JAbsent THEN JStr("")
                      ELSE high[k].suggestion]]

\* C20: the fix instructions are the FIX lines of the critical and major
\* issues, in issue order, followed by the IMPROVE lines of the
\* high-priority suggestions among the first three, and they are empty
\* exactly when no issue is critical or major and no suggestion has high
\* priority.
C20_FixInstructionsText ==
    pc = "built" =>
        /\ fix_instructions =
              ExpectedFix(call[1].issues.l)
              \o ExpectedImprove(call[1].suggestions.l)
        /\ (Len(fix_instructions) = 0) <=>
              /\ \A i \in 1..Len(call[1].issues.l) :
                    ~SevereIssue(call[1].issues.l[i])
              /\ \A i \in 1..Len(call[1].suggestions.l) :
                    ~HighPriority(call[1].suggestions.l[i])

----------------------------------------------------------------------------
(* Claims C21-C30 *)

\* the step is a regeneration whose generate call failed
RegenerationFails ==
    pc = "regenerate" /\ genCalls' = genCalls + 1 /\ genOk' = genOk

\* a failed regeneration returns at once with what the run had, and a run
\* that has returned makes no call
StopsAtFailedRegeneration ==
    /\ RegenerationFails =>
          /\ pc' = "done"
          /\ result' = [result EXCEPT !.success = TRUE]
          /\ result'.error = None
          /\ valCalls' = valCalls
          /\ result.srs_document = Some(lastValCall[1].srs_document)
          /\ result.validation_result = validation_result
          /\ result.final_score = Get(validation_result[1], "score", JNum(0))
          /\ result.iterations = genOk
    /\ pc = "done" => UNCHANGED <<genCalls, valCalls, result>>

\* C21: a regeneration that fails ends the loop at once: run returns with
\* success true and no error, the document, validation result, final score
\* and iterations it had before the call, which are those of the last
\* successful generation and of its validation, and no call follows.
C21_FailedRegenerationStops == [][StopsAtFailedRegeneration]_vars

\* a run returned after its first regeneration failed, with the first
\* document
C21_Witness ==
    /\ pc = "done"
    /\ genCalls = 2
    /\ genOk = 1
    /\ valCalls = 1
    /\ result.success
    /\ result.srs_document = Some("docA")

\* vr is the dict validate returns from its except branch: success false,
\* the stringified exception, and no metadata
FromExceptBranch(vr) ==
    /\ vr.success = JBool(FALSE)
    /\ vr.error # JAbsent
    /\ vr.metadata = JAbsent

\* the latest validation of the run failed and run has not returned yet
AfterFailedValidation ==
    /\ pc \in {"check_fix", "loop", "check_valid"}
    /\ FromExceptBranch(LatestResult)

\* from a failed validation run goes to its return without a call
ReturnsAfterFailedValidation ==
    AfterFailedValidation =>
        /\ genCalls' = genCalls
        /\ valCalls' = valCalls
        /\ pc' \in {"loop", "done"}
        /\ pc = "loop" => pc' = "done"
        /\ pc' = "done" =>
              /\ result'.success
              /\ result'.validation_result = Some(LatestResult)
              /\ result'.final_score = JNum(0)
              /\ result'.srs_document = result.srs_document

\* C22: a validation whose service call raised, the first one or one of a
\* retry round, is followed by no generate and no validate call: run
\* returns success true with that failed validation result and final
\* score 0.
C22_FailedValidationNoRetry == [][ReturnsAfterFailedValidation]_vars

\* a run with auto-fix on and a retry left that returned after the
\* re-validation of its first retry raised
C22_Witness ==
    /\ pc = "done"
    /\ args.auto_fix
    /\ args.max_retries = 2
    /\ genCalls = 2
    /\ valCalls = 2
    /\ LatestResult = ValidateFailure("service unavailable")
    /\ result.validation_result = Some(LatestResult)

\* vr is the result of a validation whose reply could not be parsed: the
\* call completed, the document is not valid, and the only issue is the
\* critical parsing issue
SoftFailure(vr) ==
    /\ vr.success = JBool(TRUE)
    /\ vr.is_valid = JBool(FALSE)
    /\ vr.issues = JList(<<IssueObj(JStr("critical"), JStr("parsing"),
                           JStr("Could not parse validation response"))>>)

\* the FIX line built from the parsing issue
ParsingFixLine ==
    [kind |-> "FIX", text |-> JStr("Could not parse validation response")]

\* with auto-fix on, a soft failure enters the loop, and with a retry left
\* it yields one generate call with the parsing issue as fix instruction
\* and uses up that retry
RetriesAfterSoftFailure ==
    (/\ pc \in {"check_fix", "loop", "regenerate", "check_valid"}
     /\ args.auto_fix
     /\ SoftFailure(LatestResult)) =>
        /\ pc = "check_fix" => pc' = "loop" /\ attempt' = 0
        /\ (pc = "loop" /\ attempt < args.max_retries) =>
              /\ pc' = "regenerate"
              /\ fix_instructions' = <<ParsingFixLine>>
        /\ (pc = "loop" /\ attempt >= args.max_retries) =>
              /\ pc' = "done"
              /\ genCalls' = genCalls
        /\ pc = "regenerate" =>
              /\ genCalls' = genCalls + 1
              /\ lastGenCall'[1].custom_instructions =
                    FixPrompt(<<ParsingFixLine>>)
        /\ pc = "check_valid" => pc' = "loop" /\ attempt' = attempt + 1

\* C23: a validation result whose reply could not be parsed (success true,
\* is_valid false, one critical parsing issue) is acted on by the auto-fix
\* loop: with auto_fix true and a retry remaining it causes one more
\* generate call and uses up a retry.
C23_SoftFailureIsActionable == [][RetriesAfterSoftFailure]_vars

\* the second retry of a run about to regenerate because the re-validation
\* of the first retry could not be parsed
C23_Witness ==
    /\ pc = "regenerate"
    /\ attempt = 1
    /\ genCalls = 2
    /\ valCalls = 2
    /\ SoftFailure(LatestResult)
    /\ LatestResult.raw_response = JStr("The document looks fine.")

\* the run validates and cannot retry: auto-fix is off or no retry is
\* allowed
NoRetryAllowed ==
    /\ pc # "idle"
    /\ args.validate
    /\ (~args.auto_fix \/ args.max_retries <= 0)

\* C24: with validate true and auto_fix false or max_retries zero or
\* negative, a run makes exactly one generate call and, when that call
\* succeeded, exactly one validate call, whatever the validation result.
C24_SingleRoundWithoutRetry ==
    NoRetryAllowed =>
        /\ genCalls <= 1
        /\ valCalls <= 1
        /\ pc # "raised"
        /\ ReturnedResult =>
              /\ genCalls = 1
              /\ valCalls = IF genOk = 1 THEN 1 ELSE 0

\* a run with auto-fix on and max_retries 0 that returned an invalid
\* document with a major issue after one call of each kind
C24_Witness ==
    /\ pc = "done"
    /\ args.auto_fix
    /\ args.max_retries = 0
    /\ genCalls = 1
    /\ valCalls = 1
    /\ ~IsValid(LatestResult)
    /\ CountIssues(LatestResult.issues, {JStr("major")}) > 0

\* C25: every validate call of a run, the first one and each re-validation,
\* builds its grading prompt from the criteria list stored for the template
\* named by template_used, which is also the template it is told to
\* validate; the list is the same in every round.
C25_CriteriaOfTemplateUsed ==
    (pc # "idle" /\ valCalls > 0) =>
        /\ lastValCall[1].template_name = result.template_used[1]
        /\ lastValCall[1].criteria_used =
              TemplateCriteria(result.template_used[1])
        /\ result.template_used =
              Some(generation_result[1].template_used)

\* a re-validation, called without criteria, of a run whose caller named
\* the template in mixed case
C25_Witness ==
    /\ pc = "check_valid"
    /\ valCalls = 2
    /\ args.template_name = Some(<<"M","i","n","i","m","a","l">>)
    /\ lastValCall[1].validation_criteria = None
    /\ lastValCall[1].criteria_used = TemplateCriteria(Minimal)

\* the criteria a direct validate call is expected to grade against: the
\* caller's list when one is supplied, else the list of the named template,
\* else the default checklist
ExpectedCriteria ==
    IF call[1].validation_criteria # None
    THEN call[1].validation_criteria[1]
    ELSE IF Lower(call[1].template_name) \in TemplateIds
         THEN TemplateCriteria(Lower(call[1].template_name))
         ELSE DefaultCriteria

\* C26: validate grades against the caller's criteria list whenever one is
\* supplied, an empty list included; only without one does it take the
\* named template's list, and the six-item default checklist when the
\* template id is unknown.
C26_CallerCriteriaWin ==
    pc = "validate_returned" =>
        /\ lastValCall[1].criteria_used = ExpectedCriteria
        /\ ValidateResult.metadata # JAbsent =>
              ValidateResult.metadata.criteria_count = ExpectedCriteria.count

\* the generate calls of the run so far passed the caller's requirement,
\* the regenerations passed the id resolved by the first generation, and
\* template_used is that id, a registered one
SameRequirementAndTemplate ==
    (pc # "idle" /\ genCalls > 0) =>
        /\ lastGenCall[1].user_requirement = args.user_requirement
        /\ lastGenCall[1].prompt.requirement = args.user_requirement
        /\ lastGenCall[1].prompt.template = generation_result[1].template_used
        /\ genCalls > 1 =>
              lastGenCall[1].template_name =
                  Some(generation_result[1].template_used)
        /\ result.template_used # None =>
              /\ result.template_used =
                    Some(generation_result[1].template_used)
              /\ result.template_used[1] \in {Agile, Ieee, Minimal, Startup}

\* C27: every generate call of a run passes the caller's requirement, every
\* regeneration passes as template id the template_used resolved by the
\* first generation, and template_used, once set, never changes and is one
\* of agile, ieee, minimal, startup.
C27_SameRequirementAndTemplate ==
    [][/\ SameRequirementAndTemplate
       /\ SameRequirementAndTemplate'
       /\ result.template_used # None =>
             result'.template_used = result.template_used]_vars

\* the second regeneration of a run whose caller named an id that is not
\* registered: agile is passed
C27_Witness ==
    /\ genCalls = 3
    /\ args.template_name = Some(<<"f","o","o">>)
    /\ lastGenCall[1].template_name = Some(Agile)
    /\ result.template_used = Some(Agile)

\* C28: when a run with validate true returns after a successful first
\* generation, its validation_result is the result of the latest validate
\* call, that call graded the document the result carries, and final_score
\* is that result's score, 0 when it has none.
C28_DocumentMatchesValidation ==
    (pc = "done" /\ args.validate) =>
        /\ valCalls > 0
        /\ result.validation_result = Some(LatestResult)
        /\ result.srs_document = Some(lastValCall[1].srs_document)
        /\ result.final_score = Get(LatestResult, "score", JNum(0))
        /\ LatestResult.score = JAbsent => result.final_score = JNum(0)

\* a run that returned after its second regeneration failed: the document
\* of the first regeneration and its validation, which carries no score
C28_Witness ==
    /\ pc = "done"
    /\ args.validate
    /\ genCalls = 3
    /\ genOk = 2
    /\ valCalls = 2
    /\ generation_result[1].srs_document = Some("docA")
    /\ result.srs_document = Some("docB")
    /\ LatestResult.score = JAbsent

\* the fix lines built from the latest validation result
LatestFixLines ==
    _build_fix_instructions(Get(LatestResult, "issues", JList(<<>>)),
                            Get(LatestResult, "suggestions", JList(<<>>))).lines

\* the first generate call carries the caller's instructions, a
\* regeneration the fix instructions of the latest validation only
InstructionsPerCall ==
    /\ pc = "generate" =>
          /\ lastGenCall'[1].custom_instructions = args.custom_instructions
          /\ lastGenCall'[1].prompt.extra =
                IF TruthyInstructions(args.custom_instructions)
                THEN args.custom_instructions
                ELSE NoInstructions
    /\ pc = "regenerate" =>
          /\ lastGenCall'[1].custom_instructions = FixPrompt(LatestFixLines)
          /\ lastGenCall'[1].prompt.extra = FixPrompt(LatestFixLines)
          /\ Len(LatestFixLines) > 0

\* C29: the caller's extra instructions go to the first generate call of a
\* run only; every regeneration receives as extra instructions the context
\* prefix with the fix instructions built from the latest validation
\* result, and nothing of the caller's instructions.
C29_CallerInstructionsFirstCallOnly == [][InstructionsPerCall]_vars

\* a regeneration made with fix instructions by a run whose caller gave
\* instructions of their own
C29_Witness ==
    /\ genCalls = 2
    /\ args.custom_instructions = CallerInstructions("be brief")
    /\ lastGenCall[1].custom_instructions.kind = "fix"
    /\ lastGenCall[1].prompt.extra.text = ""

\* the rounds the loop of the run may execute
RoundsAllowed == IF args.max_retries > 0 THEN args.max_retries ELSE 0

\* C30: with every service call returning or failing, a run ends by
\* returning a result, with success (done) or with the generation error
\* (failed), for every max_retries and every sequence of outcomes: a run
\* that has not returned can take its next step, and the loop executes at
\* most max_retries rounds, each with one generate call.
C30_RunReturns ==
    /\ pc \notin {"idle", "done", "failed"} => ENABLED Next
    /\ pc # "idle" =>
          /\ attempt \in 0..RoundsAllowed
          /\ genCalls <= 1 + RoundsAllowed
          /\ genCalls <= 2 + attempt

====
